---- MODULE Spec2Model ----
(***************************************************************************)
(* Model of the task registry of SistemaGestionEmpresarial-Demo:           *)
(*   app/infraestructure/services/tarea_service.py  (TareaService)         *)
(*   app/entities/models/tarea.py                   (Tarea, validators)    *)
(*   app/entities/enums/enums.py                    (PrioridadEnum, ...)   *)
(*   app/infraestructure/services/log_service.py    (LogManager, Timer)    *)
(*                                                                         *)
(* Environment faults that are modelled: the snapshot write of             *)
(* guardar_tareas may fail (open fails, or the write fails after the file  *)
(* was truncated), and the append to the data-operation log may fail.      *)
(* Appends to the error log and to the action log are taken to succeed.    *)
(***************************************************************************)
EXTENDS Integers, Sequences, FiniteSets, TLC

(***************************************************************************)
(* Bounds of the model.                                                    *)
(***************************************************************************)
\* Stand-in for TareaService.MAX_TAREAS (50000 in tarea_service.py:24),
\* scaled down so that the capacity limit is reached.
MAX_TAREAS == 2
\* agregar_tarea creates tasks while siguiente_id <= MaxId.
MaxId == 3
\* The clock runs over 0..MaxReloj (seconds).
MaxReloj == 1
\* At most MaxFallos writes (snapshot or data log) fail in one behaviour.
MaxFallos == 1

(***************************************************************************)
(* Program constants.                                                      *)
(***************************************************************************)
\* Field(..., max_length=70) of Tarea.titulo
MaxTitulo == 70

(***************************************************************************)
(* Enumerations: a member has a name and a value (enums.py).               *)
(***************************************************************************)
PrioridadValores == [ALTA |-> "alta", MEDIA |-> "media", BAJA |-> "baja"]
EstadoValores ==
    [PENDIENTE |-> "pendiente", EN_PROGRESO |-> "en progreso", COMPLETADA |-> "completada"]

\* str.lower() on the texts the model uses.
Lower(s) ==
    CASE s = "ALTA" -> "alta"
      [] s = "MEDIA" -> "media"
      [] s = "Baja" -> "baja"
      [] s = "COMPLETADA" -> "completada"
      [] s = "En Progreso" -> "en progreso"
      [] OTHER -> s

\* PrioridadEnum(v): the member whose value is v; <<>> stands for ValueError.
PrioridadEnum(v) ==
    IF \E m \in DOMAIN PrioridadValores : PrioridadValores[m] = v
    THEN <<CHOOSE m \in DOMAIN PrioridadValores : PrioridadValores[m] = v>>
    ELSE <<>>

\* EstadoEnum(v): the member whose value is v; <<>> stands for ValueError.
EstadoEnum(v) ==
    IF \E m \in DOMAIN EstadoValores : EstadoValores[m] = v
    THEN <<CHOOSE m \in DOMAIN EstadoValores : EstadoValores[m] = v>>
    ELSE <<>>

(***************************************************************************)
(* datetime values: [sec, usec]; comparison, isoformat and fromisoformat.  *)
(***************************************************************************)
DateTime(s, u) == [sec |-> s, usec |-> u]

\* a < b on datetimes
DtMenor(a, b) == a.sec < b.sec \/ (a.sec = b.sec /\ a.usec < b.usec)

\* datetime.isoformat(): the microsecond part is printed only when non-zero.
\* The text is modelled as the tuple of its numeric parts.
isoformat(dt) == IF dt.usec = 0 THEN <<dt.sec>> ELSE <<dt.sec, dt.usec>>

\* datetime.fromisoformat(s) accepts both shapes; anything else is ValueError.
EsIso(s) == Len(s) \in {1, 2}
fromisoformat(s) == IF Len(s) = 1 THEN DateTime(s[1], 0) ELSE DateTime(s[1], s[2])

(***************************************************************************)
(* Tarea validation (pydantic model).  Titles are sequences of characters. *)
(***************************************************************************)
Espacios == {" "}

\* v.strip() is empty exactly when every character is whitespace
RECURSIVE Strip(_)
Strip(v) ==
    IF v = <<>> THEN v
    ELSE IF Head(v) \in Espacios THEN Strip(Tail(v))
    ELSE IF v[Len(v)] \in Espacios THEN Strip(SubSeq(v, 1, Len(v) - 1))
    ELSE v

\* Field(..., max_length=70)
TituloLongitudOk(v) == Len(v) <= MaxTitulo

\* @field_validator('titulo')
TituloSinValidar(v) == TRUE
titulo_no_vacio(v) == Strip(v) # <<>>

\* @field_validator('fecha_vencimiento'): rejects v < datetime.now()
fecha_valida(v, ahora) == ~DtMenor(v, ahora)

\* Tarea(**campos) succeeds: campos is a keyword dictionary whose prioridad
\* and estado are enum values (pydantic coerces the value to the member).
CamposTarea == {"id", "titulo", "descripcion", "prioridad", "estado", "fecha_vencimiento"}
Obligatorios == CamposTarea \ {"estado"}

TareaValida(c, ahora) ==
    /\ Obligatorios \subseteq DOMAIN c
    /\ TituloLongitudOk(c.titulo)
    /\ titulo_no_vacio(c.titulo)
    /\ PrioridadEnum(c.prioridad) # <<>>
    /\ ("estado" \in DOMAIN c => EstadoEnum(c.estado) # <<>>)
    /\ fecha_valida(c.fecha_vencimiento, ahora)

\* The Tarea object built from a valid keyword dictionary.
Tarea(c) ==
    [id |-> c.id,
     titulo |-> c.titulo,
     descripcion |-> c.descripcion,
     prioridad |-> PrioridadEnum(c.prioridad)[1],
     estado |-> IF "estado" \in DOMAIN c THEN EstadoEnum(c.estado)[1] ELSE "PENDIENTE",
     fecha_vencimiento |-> c.fecha_vencimiento]

(***************************************************************************)
(* self.tareas: a Python dict keeps insertion order, so it is a sequence   *)
(* of Tarea with distinct ids.                                             *)
(***************************************************************************)
Claves(d) == {d[i].id : i \in DOMAIN d}

\* d.get(k): <<>> is None, <<t>> the stored task
DictGet(d, k) ==
    IF k \in Claves(d) THEN <<d[CHOOSE i \in DOMAIN d : d[i].id = k]>> ELSE <<>>

\* d[t.id] = t: an existing key keeps its position
DictSet(d, t) ==
    IF t.id \in Claves(d)
    THEN [i \in DOMAIN d |-> IF d[i].id = t.id THEN t ELSE d[i]]
    ELSE Append(d, t)

(***************************************************************************)
(* The snapshot file tareas.json.                                          *)
(*   [tipo |-> "ausente"]    the file does not exist                       *)
(*   [tipo |-> "corrupto"]   the file is not a JSON document               *)
(*   [tipo |-> "json", siguiente_id |-> n, tareas |-> <<dict, ...>>]       *)
(***************************************************************************)
Ausente == [tipo |-> "ausente"]
Corrupto == [tipo |-> "corrupto"]
Json(n, ds) == [tipo |-> "json", siguiente_id |-> n, tareas |-> ds]

\* {**tarea.dict(), "fecha_vencimiento": tarea.fecha_vencimiento.isoformat()}
\* as json.dump writes it: enum members are written as their values.
Serializar(t) ==
    [id |-> t.id,
     titulo |-> t.titulo,
     descripcion |-> t.descripcion,
     prioridad |-> PrioridadValores[t.prioridad],
     estado |-> EstadoValores[t.estado],
     fecha_vencimiento |-> isoformat(t.fecha_vencimiento)]

\* The outcomes of the write in guardar_tareas.
ModosGuardar == {"ok", "abrir", "escribir"}

\* guardar_tareas: the file after the call.  modo "abrir": open() raises and
\* the file is untouched; "escribir": open(.., "w") truncated the file and
\* json.dump raised, leaving no JSON document.
GuardarSinFallo(d, sid, modo, archivo) == Json(sid, [i \in DOMAIN d |-> Serializar(d[i])])
guardar_tareas(d, sid, modo, archivo) ==
    CASE modo = "ok" -> Json(sid, [i \in DOMAIN d |-> Serializar(d[i])])
      [] modo = "abrir" -> archivo
      [] modo = "escribir" -> Corrupto

\* What guardar_tareas appends to the logs / does to the file, as events.
TrazaGuardarMuda(modo) == IF modo = "ok" THEN <<"guardado">> ELSE <<>>
TrazaGuardar(modo) == IF modo = "ok" THEN <<"guardado">> ELSE <<"error">>

\* if datos.get("siguiente_id"): self.siguiente_id = datos["siguiente_id"]
ContadorSinCargar(datos, sid) == sid
ContadorCargado(datos, sid) == IF datos.siguiente_id # 0 THEN datos.siguiente_id ELSE sid

\* The loop over datos["tareas"].  acc = [tareas, errores, abortado].
\* fromisoformat is called outside the inner try: its ValueError reaches the
\* outer handler and ends the loop.
RECURSIVE CargarLista(_, _, _)
CargarLista(ds, acc, ahora) ==
    IF ds = <<>> THEN acc
    ELSE LET d == Head(ds) IN
        IF "fecha_vencimiento" \in DOMAIN d /\ ~EsIso(d.fecha_vencimiento)
        THEN [acc EXCEPT !.errores = @ + 1, !.abortado = TRUE]
        ELSE LET c == IF "fecha_vencimiento" \in DOMAIN d
                      THEN [d EXCEPT !.fecha_vencimiento = fromisoformat(@)]
                      ELSE d
             IN IF TareaValida(c, ahora)
                THEN CargarLista(Tail(ds), [acc EXCEPT !.tareas = DictSet(@, Tarea(c))], ahora)
                ELSE CargarLista(Tail(ds), [acc EXCEPT !.errores = @ + 1], ahora)

\* TareaService.__init__ followed by cargar_tareas: the registry after
\* construction, and the number of error-log entries written.
cargar_tareas(archivo, ahora) ==
    LET vacio == [tareas |-> <<>>, errores |-> 0, abortado |-> FALSE] IN
    CASE archivo.tipo = "ausente" ->
            [tareas |-> <<>>, siguiente_id |-> 1, errores |-> 0]
      [] archivo.tipo = "corrupto" ->
            [tareas |-> <<>>, siguiente_id |-> 1, errores |-> 1]
      [] archivo.tipo = "json" ->
            LET r == CargarLista(archivo.tareas, vacio, ahora) IN
            [tareas |-> r.tareas,
             siguiente_id |-> ContadorCargado(archivo, 1),
             errores |-> r.errores]

(***************************************************************************)
(* sorted(lista, key=..., reverse=...): a stable sort.  clave maps each    *)
(* element to an integer.                                                  *)
(***************************************************************************)
\* x goes before the first element that must follow it.
Insertar(s, x, clave, inverso) ==
    LET despues(y) == IF inverso THEN clave[y] < clave[x] ELSE clave[x] < clave[y]
        P == {i \in DOMAIN s : despues(s[i])}
        k == IF P = {} THEN Len(s) + 1 ELSE CHOOSE i \in P : \A j \in P : i <= j
    IN SubSeq(s, 1, k - 1) \o <<x>> \o SubSeq(s, k, Len(s))

RECURSIVE SortedDesde(_, _, _, _)
SortedDesde(resto, hecho, clave, inverso) ==
    IF resto = <<>> THEN hecho
    ELSE SortedDesde(Tail(resto), Insertar(hecho, Head(resto), clave, inverso), clave, inverso)

sorted(lista, clave, inverso) == SortedDesde(lista, <<>>, clave, inverso)

Rango(s) == {s[i] : i \in DOMAIN s}

\* [x for x in lista if P(x)]
SinFiltrar(lista) == lista
RECURSIVE NoCompletadas(_)
NoCompletadas(lista) ==
    IF lista = <<>> THEN <<>>
    ELSE IF Head(lista).estado # "COMPLETADA"
         THEN <<Head(lista)>> \o NoCompletadas(Tail(lista))
         ELSE NoCompletadas(Tail(lista))

\* prioridad_valor in listar_tareas_por_prioridad
prioridad_valor_cambiado == [BAJA |-> 1, MEDIA |-> 3, ALTA |-> 2]
prioridad_valor == [BAJA |-> 1, MEDIA |-> 2, ALTA |-> 3]

\* An order-preserving integer for a datetime (usec < 10 in the model).
Ordinal(dt) == dt.sec * 10 + dt.usec

\* listar_tareas_por_prioridad: the returned list
listar_tareas_por_prioridad(d, ascendente) ==
    sorted(d, [t \in Rango(d) |-> prioridad_valor[t.prioridad]], ~ascendente)

\* listar_tareas_por_vencimiento: the returned list
listar_tareas_por_vencimiento(d) ==
    LET tareas_pendientes == NoCompletadas(d) IN
    sorted(tareas_pendientes,
           [t \in Rango(tareas_pendientes) |-> Ordinal(t.fecha_vencimiento)], FALSE)

(***************************************************************************)
(* State.                                                                  *)
(***************************************************************************)
VARIABLES
    tareas,         \* TareaService.tareas (insertion-ordered dict)
    siguiente_id,   \* TareaService.siguiente_id
    archivo,        \* the snapshot file tareas.json
    reloj,          \* datetime.now(), in seconds
    ultima,         \* the call just made: arguments, outcome, log entries;
                    \* Ninguna while the menu is shown
    fallos,         \* environment: failed writes so far
    emitidos,       \* history: ids returned by a successful agregar_tarea, over all lifetimes
    perdidos        \* history: emitted ids that the snapshot did not record at a restart

registro == <<tareas, siguiente_id, archivo>>
historia == <<emitidos, perdidos>>
vars == <<tareas, siguiente_id, archivo, reloj, ultima, fallos, emitidos, perdidos>>

ahora == DateTime(reloj, 0)

\* res: "ok" (the call returned ret) or the exception raised;
\* ret: <<>> is None, <<t>> a Tarea, or the returned list;
\* traza: the entries the call appended, in order: "error" (errores.log),
\* "datos" (datos.log), "guardado" (tareas.json rewritten), "accion"
\* (acciones.log, written by Timer.__exit__).
Llamada(op, args, res, motivo, ret, traza) ==
    [op |-> op, args |-> args, res |-> res, motivo |-> motivo, ret |-> ret, traza |-> traza]

Ninguna == Llamada("ninguna", <<>>, "ok", "", <<>>, <<>>)
EnMenu == ultima.op = "ninguna"

(***************************************************************************)
(* Inputs.                                                                 *)
(***************************************************************************)
TituloA == <<"a">>
TituloVacio == <<>>
TituloBlanco == <<" ", " ", " ">>
TituloLargo == [i \in 1..(MaxTitulo + 1) |-> "a"]
F1 == DateTime(0, 5)
F2 == DateTime(1, 0)

Entrada(t, p, f) == [titulo |-> t, descripcion |-> "d", prioridad |-> p, fecha_vencimiento |-> f]

\* Well-formed inputs (a due date becomes invalid once the clock passes it),
\* and one input per validation rule.
EntradasBuenas ==
    {Entrada(TituloA, "alta", F1), Entrada(TituloA, "MEDIA", F1), Entrada(TituloA, "Baja", F2)}
EntradasMalas ==
    {Entrada(TituloVacio, "alta", F2), Entrada(TituloBlanco, "alta", F2),
     Entrada(TituloLargo, "alta", F2), Entrada(TituloA, "urgent", F2)}
Entradas == EntradasBuenas \cup EntradasMalas

EstadoTextos == {"pendiente", "En Progreso", "COMPLETADA", "hecho"}
Ids == 1..MaxId

\* Which write fails during a call, if any.
Fallos == {"ninguno", "datos", "abrir", "escribir"}
ModoDe(fallo) == IF fallo \in {"abrir", "escribir"} THEN fallo ELSE "ok"
SinFallo(fallo) == fallo = "ninguno" /\ UNCHANGED fallos
ConFallo(fallo) ==
    /\ fallo # "ninguno" => fallos < MaxFallos
    /\ fallos' = IF fallo = "ninguno" THEN fallos ELSE fallos + 1

(***************************************************************************)
(* Operations of TareaService.                                             *)
(***************************************************************************)
\* with Timer(...): Timer.__exit__ runs when the body returns and when it
\* raises, and appends the timing entry after the entries of the body.
TimerSinSalida(cuerpo) == cuerpo
Timer(cuerpo) == cuerpo \o <<"accion">>

\* if len(self.tareas) >= self.MAX_TAREAS
LimiteHolgado(d) == Len(d) > MAX_TAREAS
LimiteAlcanzado(d) == Len(d) >= MAX_TAREAS

\* self.siguiente_id += 1
IdSinAvance(sid) == sid
IdTrasAgregar(sid) == sid + 1

\* tarea.estado = estado_enum, in place in the dict
ConEstadoYPrioridad(d, k, e) ==
    [i \in DOMAIN d |->
        IF d[i].id = k THEN [d[i] EXCEPT !.estado = e, !.prioridad = "BAJA"] ELSE d[i]]
ConEstado(d, k, e) ==
    [i \in DOMAIN d |-> IF d[i].id = k THEN [d[i] EXCEPT !.estado = e] ELSE d[i]]

agregar_tarea(e, fallo) ==
    LET p == PrioridadEnum(Lower(e.prioridad))
        campos == [id |-> siguiente_id, titulo |-> e.titulo, descripcion |-> e.descripcion,
                   prioridad |-> Lower(e.prioridad), estado |-> EstadoValores.PENDIENTE,
                   fecha_vencimiento |-> e.fecha_vencimiento]
        falla(motivo) ==
            ultima' = Llamada("agregar", e, "ValueError", motivo, <<>>, Timer(<<"error">>))
    IN
    /\ EnMenu
    /\ UNCHANGED reloj
    /\ IF LimiteAlcanzado(tareas)
       THEN falla("capacidad") /\ SinFallo(fallo) /\ UNCHANGED <<registro, historia>>
       ELSE IF p = <<>>
       THEN falla("agregar") /\ SinFallo(fallo) /\ UNCHANGED <<registro, historia>>
       ELSE IF ~TareaValida(campos, ahora)
       THEN falla("validacion") /\ SinFallo(fallo) /\ UNCHANGED <<registro, historia>>
       ELSE LET nueva_tarea == Tarea(campos) IN
            /\ siguiente_id <= MaxId
            /\ ConFallo(fallo)
            /\ tareas' = DictSet(tareas, nueva_tarea)
            /\ IF fallo = "datos"
               THEN \* log_data_operation raised: caught by "except Exception"
                    /\ falla("agregar")
                    /\ UNCHANGED <<siguiente_id, archivo, historia>>
               ELSE /\ siguiente_id' = IdTrasAgregar(siguiente_id)
                    /\ archivo' = guardar_tareas(tareas', siguiente_id', ModoDe(fallo), archivo)
                    /\ ultima' = Llamada("agregar", e, "ok", "", <<nueva_tarea>>,
                                         Timer(<<"datos">> \o TrazaGuardar(ModoDe(fallo))))
                    /\ emitidos' = emitidos \cup {nueva_tarea.id}
                    /\ perdidos' = perdidos \ {nueva_tarea.id}

buscar_tarea_por_id(tarea_id) ==
    /\ EnMenu
    /\ ultima' = Llamada("buscar", [tarea_id |-> tarea_id], "ok", "",
                         DictGet(tareas, tarea_id), Timer(<<>>))
    /\ UNCHANGED <<registro, reloj, fallos, historia>>

ListarPorPrioridad(ascendente) ==
    /\ EnMenu
    /\ ultima' = Llamada("listar_prioridad", [ascendente |-> ascendente], "ok", "",
                         listar_tareas_por_prioridad(tareas, ascendente), Timer(<<>>))
    /\ UNCHANGED <<registro, reloj, fallos, historia>>

ListarPorVencimiento ==
    /\ EnMenu
    /\ ultima' = Llamada("listar_vencimiento", <<>>, "ok", "",
                         listar_tareas_por_vencimiento(tareas), Timer(<<>>))
    /\ UNCHANGED <<registro, reloj, fallos, historia>>

actualizar_estado_tarea(tarea_id, nuevo_estado, fallo) ==
    LET args == [tarea_id |-> tarea_id, nuevo_estado |-> nuevo_estado]
        tarea == DictGet(tareas, tarea_id)
        estado_enum == EstadoEnum(Lower(nuevo_estado))
    IN
    /\ EnMenu
    /\ UNCHANGED <<reloj, historia>>
    /\ IF tarea = <<>>
       THEN /\ ultima' = Llamada("actualizar", args, "ok", "no_encontrada", <<>>, Timer(<<>>))
            /\ SinFallo(fallo)
            /\ UNCHANGED registro
       ELSE IF estado_enum = <<>>
       THEN /\ ultima' = Llamada("actualizar", args, "ValueError", "estado", <<>>,
                                 Timer(<<"error">>))
            /\ SinFallo(fallo)
            /\ UNCHANGED registro
       ELSE /\ ConFallo(fallo)
            /\ tareas' = ConEstado(tareas, tarea_id, estado_enum[1])
            /\ UNCHANGED siguiente_id
            /\ IF fallo = "datos"
               THEN \* log_data_operation raised OSError: not a ValueError, it propagates
                    /\ ultima' = Llamada("actualizar", args, "OSError", "datos", <<>>, Timer(<<>>))
                    /\ UNCHANGED archivo
               ELSE /\ archivo' = guardar_tareas(tareas', siguiente_id, ModoDe(fallo), archivo)
                    /\ ultima' = Llamada("actualizar", args, "ok", "",
                                         DictGet(tareas', tarea_id),
                                         Timer(<<"datos">> \o TrazaGuardar(ModoDe(fallo))))

\* The process ends and a new one constructs TareaService: __init__ and
\* cargar_tareas.
Reiniciar ==
    LET r == cargar_tareas(archivo, ahora) IN
    /\ EnMenu
    /\ tareas' = r.tareas
    /\ siguiente_id' = r.siguiente_id
    /\ ultima' = Llamada("cargar", <<>>, "ok", "", <<>>, [i \in 1..r.errores |-> "error"])
    /\ perdidos' = perdidos \cup
            {i \in emitidos : archivo.tipo # "json" \/ i >= archivo.siguiente_id}
    /\ UNCHANGED <<archivo, reloj, fallos, emitidos>>

\* SistemaTareas.ejecutar: the call is over and the menu is shown again.
Menu ==
    /\ ~EnMenu
    /\ ultima' = Ninguna
    /\ UNCHANGED <<registro, reloj, fallos, historia>>

\* Time passes while the menu waits for input.
Avanzar ==
    /\ EnMenu
    /\ reloj < MaxReloj
    /\ reloj' = reloj + 1
    /\ UNCHANGED <<registro, ultima, fallos, historia>>

Agregar == \E e \in Entradas, fallo \in Fallos : agregar_tarea(e, fallo)
Buscar == \E tarea_id \in Ids : buscar_tarea_por_id(tarea_id)
ListarPrioridad == \E ascendente \in BOOLEAN : ListarPorPrioridad(ascendente)
Actualizar == \E tarea_id \in Ids, nuevo_estado \in EstadoTextos, fallo \in Fallos :
                  actualizar_estado_tarea(tarea_id, nuevo_estado, fallo)

Init ==
    LET r == cargar_tareas(Ausente, DateTime(0, 0)) IN
    /\ archivo = Ausente
    /\ reloj = 0
    /\ tareas = r.tareas
    /\ siguiente_id = r.siguiente_id
    /\ ultima = Llamada("cargar", <<>>, "ok", "", <<>>, <<>>)
    /\ fallos = 0
    /\ emitidos = {}
    /\ perdidos = {}

Next ==
    \/ Agregar
    \/ Buscar
    \/ ListarPrioridad
    \/ ListarPorVencimiento
    \/ Actualizar
    \/ Reiniciar
    \/ Menu
    \/ Avanzar

Spec == Init /\ [][Next]_vars

\* One process lifetime, started without a snapshot file: no restart.
NextVida ==
    \/ Agregar
    \/ Buscar
    \/ ListarPrioridad
    \/ ListarPorVencimiento
    \/ Actualizar
    \/ Menu
    \/ Avanzar

SpecVida == Init /\ [][NextVida]_vars

(***************************************************************************)
(* Start-up on a snapshot file that the program did not write itself:      *)
(* record i of the file has id i and is well-formed or malformed.          *)
(***************************************************************************)
MaxRegistros == 3

DictBueno(i) ==
    [id |-> i, titulo |-> TituloA, descripcion |-> "d", prioridad |-> "alta",
     estado |-> "pendiente", fecha_vencimiento |-> isoformat(F2)]
\* no "titulo" key
DictSinTitulo(i) ==
    [id |-> i, descripcion |-> "d", prioridad |-> "alta",
     estado |-> "pendiente", fecha_vencimiento |-> isoformat(F2)]
\* unknown priority
DictPrioridadMala(i) == [DictBueno(i) EXCEPT !.prioridad = "urgent"]
\* "fecha_vencimiento" is not an ISO timestamp
DictFechaMala(i) == [DictBueno(i) EXCEPT !.fecha_vencimiento = <<>>]

DictsExternos(i) == {DictBueno(i), DictSinTitulo(i), DictPrioridadMala(i), DictFechaMala(i)}

ArchivosExternos ==
    {Json(n + 1, ds) : n \in {0}, ds \in {<<>>}} \cup
    UNION {{Json(n + 1, ds) : ds \in {ds \in [1..n -> UNION {DictsExternos(i) : i \in 1..n}] :
                                        \A i \in 1..n : ds[i] \in DictsExternos(i)}}
           : n \in 1..MaxRegistros}

InitCarga ==
    /\ archivo \in ArchivosExternos
    /\ reloj = 0
    /\ LET r == cargar_tareas(archivo, DateTime(0, 0)) IN
        /\ tareas = r.tareas
        /\ siguiente_id = r.siguiente_id
        /\ ultima = Llamada("cargar", <<>>, "ok", "", <<>>, [i \in 1..r.errores |-> "error"])
    /\ fallos = 0
    /\ emitidos = {}
    /\ perdidos = {}

NextCarga ==
    \/ Reiniciar
    \/ Menu
    \/ Avanzar

SpecCarga == InitCarga /\ [][NextCarga]_vars

(***************************************************************************)
(* Properties.                                                             *)
(***************************************************************************)
Cuenta(sec, x) == Cardinality({i \in DOMAIN sec : sec[i] = x})
AgregarOk(u) == u.op = "agregar" /\ u.res = "ok"
ActualizarOk(u) == u.op = "actualizar" /\ u.res = "ok" /\ u.ret # <<>>
TodoBlanco(t) == \A i \in DOMAIN t : t[i] = " "

\* C1: in a process started on no snapshot file, the k-th successful
\* agregar_tarea returns the task with id k: the ids returned so far are
\* 1..k, the counter is k + 1 (a failed call does not consume an id), the
\* returned task is the one stored under its id, and no two stored tasks
\* share an id.
C1_IdsConsecutivos ==
    /\ emitidos = 1..Cardinality(emitidos)
    /\ siguiente_id = Cardinality(emitidos) + 1
    /\ Cardinality(Claves(tareas)) = Len(tareas)
    /\ AgregarOk(ultima) =>
          /\ ultima.ret[1].id = Cardinality(emitidos)
          /\ DictGet(tareas, ultima.ret[1].id) = ultima.ret

\* C1, witness: the second task was created in a run in which a write failed.
C1_Testigo ==
    /\ AgregarOk(ultima)
    /\ ultima.ret[1].id = 2
    /\ fallos = 1
    /\ archivo.tipo = "json"

\* C2: with MAX_TAREAS tasks stored, agregar_tarea raises the capacity
\* error, stores nothing, keeps siguiente_id and does not rewrite the
\* snapshot; with fewer tasks stored it never raises the capacity error.
C2_Capacidad ==
    [][ultima'.op = "agregar" =>
          IF Len(tareas) >= MAX_TAREAS
          THEN /\ ultima'.res = "ValueError"
               /\ ultima'.motivo = "capacidad"
               /\ Cuenta(ultima'.traza, "guardado") = 0
               /\ UNCHANGED registro
          ELSE ultima'.motivo # "capacidad"]_vars

\* C2, witness: a call was refused for capacity.
C2_Testigo ==
    /\ ultima.op = "agregar"
    /\ ultima.motivo = "capacidad"
    /\ Len(tareas) = MAX_TAREAS

\* C3: agregar_tarea with an empty or blank title, a title of more than 70
\* characters, an unknown priority text or a due date before now, and
\* actualizar_estado_tarea with an unknown status text, do not succeed (they
\* raise ValueError; the update of an unknown id returns None) and leave
\* tareas, siguiente_id and the snapshot file as they were.
EntradaInvalida(e, t) ==
    \/ TodoBlanco(e.titulo)
    \/ Len(e.titulo) > 70
    \/ Lower(e.prioridad) \notin {"alta", "media", "baja"}
    \/ DtMenor(e.fecha_vencimiento, DateTime(t, 0))

EstadoInvalido(a) == Lower(a.nuevo_estado) \notin {"pendiente", "en progreso", "completada"}

C3_ValidacionSinCambios ==
    [][/\ ultima'.op = "agregar" /\ EntradaInvalida(ultima'.args, reloj) =>
            ultima'.res = "ValueError" /\ UNCHANGED registro
       /\ ultima'.op = "actualizar" /\ EstadoInvalido(ultima'.args) =>
            /\ \/ ultima'.res = "ValueError"
               \/ ultima'.ret = <<>> /\ ultima'.args.tarea_id \notin Claves(tareas)
            /\ UNCHANGED registro]_vars

\* C3, witness: a stored task exists and a call with an invalid input failed.
C3_Testigo ==
    /\ tareas # <<>>
    /\ archivo.tipo = "json"
    /\ \/ ultima.op = "agregar" /\ ultima.res = "ValueError"
          /\ ultima.args.fecha_vencimiento = F1 /\ reloj = 1
          /\ ultima.motivo = "validacion"
       \/ ultima.op = "actualizar" /\ ultima.res = "ValueError"

\* C4: saving the registry and loading the snapshot into a fresh registry,
\* now or at any later time, gives back the same tasks (same ids, and per id
\* the same title, description, priority, status and due date) and the same
\* siguiente_id.
C4_IdaYVuelta ==
    \A t \in reloj..MaxReloj :
        LET r == cargar_tareas(guardar_tareas(tareas, siguiente_id, "ok", archivo),
                               DateTime(t, 0))
        IN r.tareas = tareas /\ r.siguiente_id = siguiente_id

\* C5: loading a snapshot in which exactly one record is malformed stores
\* every other record of the snapshot, does not store the malformed one and
\* writes one error-log entry.
DictValido(d, t) ==
    /\ "fecha_vencimiento" \in DOMAIN d
    /\ EsIso(d.fecha_vencimiento)
    /\ TareaValida([d EXCEPT !.fecha_vencimiento = fromisoformat(@)], DateTime(t, 0))

Malformados(ds, t) == {i \in DOMAIN ds : ~DictValido(ds[i], t)}

C5_SoloSeOmiteElMalformado ==
    (/\ ultima.op = "cargar"
     /\ archivo.tipo = "json"
     /\ Cardinality(Malformados(archivo.tareas, reloj)) = 1)
    => /\ Claves(tareas) =
            {archivo.tareas[i].id : i \in DOMAIN archivo.tareas \ Malformados(archivo.tareas, reloj)}
       /\ ultima.traza = <<"error">>

\* C6 as stated: a successful actualizar_estado_tarea(id, s) sets the status
\* of task id to s, changes no other field of it and no other task, keeps
\* the ids and siguiente_id, and rewrites the snapshot exactly once.
SoloCambiaEstado(antes, despues, k, e) ==
    /\ Len(despues) = Len(antes)
    /\ \A i \in DOMAIN antes :
          IF antes[i].id = k
          THEN despues[i] = [antes[i] EXCEPT !.estado = e]
          ELSE despues[i] = antes[i]

EstadoPedido(a) ==
    CASE Lower(a.nuevo_estado) = "pendiente" -> "PENDIENTE"
      [] Lower(a.nuevo_estado) = "en progreso" -> "EN_PROGRESO"
      [] Lower(a.nuevo_estado) = "completada" -> "COMPLETADA"

Instantanea(d, sid) == Json(sid, [i \in DOMAIN d |-> Serializar(d[i])])

C6_UnaReescritura ==
    [][ActualizarOk(ultima') =>
          /\ SoloCambiaEstado(tareas, tareas', ultima'.args.tarea_id, EstadoPedido(ultima'.args))
          /\ siguiente_id' = siguiente_id
          /\ Cuenta(ultima'.traza, "guardado") = 1
          /\ archivo' = Instantanea(tareas', siguiente_id')]_vars

\* C6 as amended: ... and guardar_tareas runs exactly once: when its write
\* succeeds the snapshot is rewritten exactly once with the new state, and
\* when its write fails the snapshot is not rewritten (it keeps its content
\* or is left truncated) and one error-log entry is written.
C6_UnGuardado ==
    [][ActualizarOk(ultima') =>
          /\ SoloCambiaEstado(tareas, tareas', ultima'.args.tarea_id, EstadoPedido(ultima'.args))
          /\ siguiente_id' = siguiente_id
          /\ Cuenta(ultima'.traza, "guardado") + Cuenta(ultima'.traza, "error") = 1
          /\ IF Cuenta(ultima'.traza, "guardado") = 1
             THEN archivo' = Instantanea(tareas', siguiente_id') /\ UNCHANGED fallos
             ELSE archivo' \in {archivo, Corrupto} /\ fallos' = fallos + 1]_vars

\* C6, witness: the status of one of two stored tasks was updated and saved.
C6_Testigo ==
    /\ ActualizarOk(ultima)
    /\ Len(tareas) = 2
    /\ ultima.ret[1].estado = "COMPLETADA"
    /\ archivo = Instantanea(tareas, siguiente_id)

\* C7 as stated: an id returned by a successful agregar_tarea is never
\* returned by a later one, across restarts and failed saves.
C7_SinReuso ==
    [][AgregarOk(ultima') => ultima'.ret[1].id \notin emitidos]_vars

\* C7 as amended: an id returned by a successful agregar_tarea is returned
\* again only after a restart at which the snapshot file did not record it
\* (no readable snapshot, or a counter not above the id).
C7_ReusoSoloTrasPerdida ==
    [][AgregarOk(ultima') /\ ultima'.ret[1].id \in emitidos =>
          ultima'.ret[1].id \in perdidos]_vars

\* C7, witness: a task was created after a restart (task 1 was saved and is
\* no longer in memory) and got an id that was never returned before.
C7_Testigo ==
    /\ AgregarOk(ultima)
    /\ ultima.ret[1].id = 2
    /\ emitidos = {1, 2}
    /\ perdidos = {}
    /\ 1 \notin Claves(tareas)

\* C8: in one process lifetime every task once stored stays stored under
\* its id with the same title, description, priority and due date, whatever
\* calls are made and however they end; only estado may change.
C8_SoloCambiaElEstado ==
    [][\A i \in DOMAIN tareas : \E j \in DOMAIN tareas' :
          tareas'[j] = [tareas[i] EXCEPT !.estado = tareas'[j].estado]]_vars

\* C9 as stated: listar_tareas_por_vencimiento returns exactly the tasks
\* that are not completed, each once, strictly ascending by due date, and
\* does not change the registry.
Pendientes(d) == {t \in Rango(d) : t.estado # "COMPLETADA"}
SinRepetir(l) == Cardinality(Rango(l)) = Len(l)

C9_OrdenEstricto ==
    [][ultima'.op = "listar_vencimiento" =>
          /\ Rango(ultima'.ret) = Pendientes(tareas)
          /\ SinRepetir(ultima'.ret)
          /\ \A i, j \in DOMAIN ultima'.ret :
                i < j => DtMenor(ultima'.ret[i].fecha_vencimiento, ultima'.ret[j].fecha_vencimiento)
          /\ UNCHANGED registro]_vars

\* C9 as amended: ... ascending by due date, strictly except that tasks
\* with the same due date follow one another.
C9_OrdenNoDecreciente ==
    [][ultima'.op = "listar_vencimiento" =>
          /\ Rango(ultima'.ret) = Pendientes(tareas)
          /\ SinRepetir(ultima'.ret)
          /\ \A i, j \in DOMAIN ultima'.ret :
                i < j => ~DtMenor(ultima'.ret[j].fecha_vencimiento, ultima'.ret[i].fecha_vencimiento)
          /\ UNCHANGED registro]_vars

\* C9, witness: two pending tasks with the same due date were listed.
C9_Testigo ==
    /\ ultima.op = "listar_vencimiento"
    /\ Len(ultima.ret) = 2
    /\ ultima.ret[1].fecha_vencimiento = ultima.ret[2].fecha_vencimiento

\* C10: listar_tareas_por_prioridad returns every stored task exactly once,
\* with ranks baja=1 < media=2 < alta=3 non-decreasing when ascendente and
\* non-increasing otherwise, and does not change the registry.
Rango3(t) ==
    CASE t.prioridad = "BAJA" -> 1 [] t.prioridad = "MEDIA" -> 2 [] t.prioridad = "ALTA" -> 3

C10_OrdenPorPrioridad ==
    [][ultima'.op = "listar_prioridad" =>
          /\ Rango(ultima'.ret) = Rango(tareas)
          /\ Len(ultima'.ret) = Len(tareas)
          /\ \A i, j \in DOMAIN ultima'.ret :
                i < j => IF ultima'.args.ascendente
                         THEN Rango3(ultima'.ret[i]) <= Rango3(ultima'.ret[j])
                         ELSE Rango3(ultima'.ret[i]) >= Rango3(ultima'.ret[j])
          /\ UNCHANGED registro]_vars

\* C10, witness: a descending listing that reorders two tasks, one of them
\* completed.
C10_Testigo ==
    /\ ultima.op = "listar_prioridad"
    /\ ~ultima.args.ascendente
    /\ Len(ultima.ret) = 2
    /\ ultima.ret # tareas
    /\ \E i \in DOMAIN ultima.ret : ultima.ret[i].estado = "COMPLETADA"

\* C11 as stated: when the save made by a successful agregar_tarea or
\* actualizar_estado_tarea fails, the call still returns the new or updated
\* task, the change stays in memory (task stored and siguiente_id advanced,
\* or estado changed), one error-log entry is written and the snapshot file
\* keeps its previous content.
GuardadoFallido(u, f, g) == (AgregarOk(u) \/ ActualizarOk(u)) /\ g = f + 1

CambioEnMemoria(u, d, sid, dd, sidd) ==
    /\ u.ret # <<>>
    /\ DictGet(dd, u.ret[1].id) = u.ret
    /\ IF u.op = "agregar"
       THEN /\ u.ret[1].id = sid
            /\ sidd = sid + 1
            /\ Claves(dd) = Claves(d) \cup {sid}
            /\ u.ret[1].estado = "PENDIENTE"
       ELSE /\ u.ret[1].id = u.args.tarea_id
            /\ u.ret[1].estado = EstadoPedido(u.args)
            /\ sidd = sid
            /\ Claves(dd) = Claves(d)

C11_InstantaneaIntacta ==
    [][GuardadoFallido(ultima', fallos, fallos') =>
          /\ CambioEnMemoria(ultima', tareas, siguiente_id, tareas', siguiente_id')
          /\ Cuenta(ultima'.traza, "error") = 1
          /\ Cuenta(ultima'.traza, "guardado") = 0
          /\ archivo' = archivo]_vars

\* C11 as amended: ... one error-log entry is written and the snapshot file
\* is not rewritten with the new state: it keeps its previous content when
\* the file could not be opened, and it is left truncated, no longer a JSON
\* document, when the write failed after the file was opened.
C11_FalloDeGuardadoTolerado ==
    [][GuardadoFallido(ultima', fallos, fallos') =>
          /\ CambioEnMemoria(ultima', tareas, siguiente_id, tareas', siguiente_id')
          /\ Cuenta(ultima'.traza, "error") = 1
          /\ Cuenta(ultima'.traza, "guardado") = 0
          /\ archivo' \in {archivo, Corrupto}]_vars

\* C11, witness: the second task was created while the write of the snapshot
\* failed after the file was opened: the task is in memory, the file is lost.
C11_Testigo ==
    /\ AgregarOk(ultima)
    /\ ultima.ret[1].id = 2
    /\ siguiente_id = 3
    /\ fallos = 1
    /\ ultima.traza = <<"datos", "error", "accion">>
    /\ archivo = Corrupto

\* C12 as stated: every error outcome appends an entry to the error log
\* before the call returns: capacity reached, validation failure in
\* agregar_tarea, unknown status text in actualizar_estado_tarea, unknown id
\* in buscar_tarea_por_id and in actualizar_estado_tarea (None returned), a
\* record skipped during the load, a failed load and a failed save.
Errores(u) == Cuenta(u.traza, "error")

\* records of the snapshot that the load did not store
Saltados(f, d) == {i \in DOMAIN f.tareas : f.tareas[i].id \notin Claves(d)}

\* the call raised for capacity, validation or an unknown status text
Rechazada(u) == u.op \in {"agregar", "actualizar"} /\ u.res = "ValueError"

\* the call was made with an id that is not stored
NoEncontrada(u, d) ==
    /\ u.op \in {"buscar", "actualizar"}
    /\ u.args.tarea_id \notin Claves(d)

\* every error entry of a timed call is written before its timing entry
ErrorAntesDeVolver(u) ==
    u.op # "cargar" =>
        \A i \in DOMAIN u.traza : u.traza[i] = "error" => i < Len(u.traza)

ErroresSalvoNoEncontrada(u, d, dd, f, g, a) ==
    /\ Rechazada(u) => Errores(u) = 1
    /\ GuardadoFallido(u, f, g) => Errores(u) = 1
    /\ u.op = "cargar" /\ a.tipo = "corrupto" => Errores(u) = 1
    /\ u.op = "cargar" /\ a.tipo = "json" => Errores(u) = Cardinality(Saltados(a, dd))
    /\ ErrorAntesDeVolver(u)

C12_TodoErrorRegistrado ==
    [][/\ ErroresSalvoNoEncontrada(ultima', tareas, tareas', fallos, fallos', archivo)
       /\ NoEncontrada(ultima', tareas) => Errores(ultima') >= 1]_vars

\* C12 as amended: ... every error outcome except an unknown id: capacity
\* reached, validation failure, unknown status text, a record skipped during
\* the load, a failed load and a failed save each append one entry before
\* the call returns; buscar_tarea_por_id and actualizar_estado_tarea with an
\* unknown id return None and append nothing to the error log.
C12_ErroresRegistrados ==
    [][/\ ErroresSalvoNoEncontrada(ultima', tareas, tareas', fallos, fallos', archivo)
       /\ NoEncontrada(ultima', tareas) =>
             /\ ultima'.res = "ok"
             /\ ultima'.ret = <<>>
             /\ Errores(ultima') = 0]_vars

\* C12, witness: a restart on a snapshot of two tasks skipped the one whose
\* due date had passed and wrote one error entry.
C12_Testigo ==
    /\ ultima.op = "cargar"
    /\ archivo.tipo = "json"
    /\ Len(archivo.tareas) = 2
    /\ Len(tareas) = 1
    /\ Errores(ultima) = 1

\* C13: every call of agregar_tarea, buscar_tarea_por_id, the two listings
\* and actualizar_estado_tarea appends exactly one timing entry, as the last
\* entry of the call, whether it returns a value, returns None or raises;
\* a successful agregar_tarea or actualizar_estado_tarea appends exactly one
\* data-operation entry, and no other call appends one.
Temporizadas == {"agregar", "buscar", "listar_prioridad", "listar_vencimiento", "actualizar"}

C13_UnaEntradaDeTiempo ==
    [][ultima'.op \in Temporizadas =>
          /\ Cuenta(ultima'.traza, "accion") = 1
          /\ ultima'.traza[Len(ultima'.traza)] = "accion"
          /\ Cuenta(ultima'.traza, "datos") =
                IF AgregarOk(ultima') \/ ActualizarOk(ultima') THEN 1 ELSE 0]_vars

\* C13, witness: an update with an unknown status text raised after its
\* error entry, and the timing entry followed.
C13_Testigo ==
    /\ ultima.op = "actualizar"
    /\ ultima.res = "ValueError"
    /\ ultima.traza = <<"error", "accion">>
    /\ Len(tareas) = 2

\* C14: in every state between calls, the state right after the load
\* included, siguiente_id is greater than every id stored in tareas, and
\* the counter of a snapshot file is greater than the id of every record in
\* it, so that agregar_tarea never stores a task under an id in use.
C14_ContadorSobreLosIds ==
    /\ \A k \in Claves(tareas) : k < siguiente_id
    /\ archivo.tipo = "json" =>
          \A i \in DOMAIN archivo.tareas : archivo.tareas[i].id < archivo.siguiente_id

====
